---------------------------- MODULE Spec2Model ----------------------------
(***************************************************************************)
(* Model of the spotify-history-analytics pipeline.                        *)
(*                                                                         *)
(*   Collector     src/lambda.py    lambda_handler and its helpers         *)
(*   Deduplicator  src/glue-job.py  the Glue job script                    *)
(*                                                                         *)
(* Specifications:                                                         *)
(*   Spec         Collector, invocations of one execution environment run  *)
(*                one after the other (the scheduled trigger), in slot "a" *)
(*   SpecOverlap  Collector, two invocations may overlap on /tmp/.cache    *)
(*   SpecNorm     get_recent_tracks applied to bounded API responses       *)
(*   SpecGlue     the Deduplicator job, run and re-run                     *)
(***************************************************************************)
EXTENDS Integers, Sequences, FiniteSets

VARIABLES
    environ,        \* os.environ: the set of configuration names that are set
    packagedCache,  \* content of ./.cache (read-only seed), or Absent
    tmpCache,       \* content of /tmp/.cache, or Absent
    s3Objects,      \* the bucket: a set of [key, body] objects
    clock,          \* the wall clock datetime.now() reads, in ticks
    runs,           \* number of invocations started so far
    seedCopies,     \* history: number of shutil.copy calls made so far
    clobbered,      \* history: a seed copy overwrote a refreshed /tmp/.cache
    overlapped,     \* history: two invocations have been in flight together
    frame,          \* frame[i]: the locals of invocation slot i of lambda_handler
    normApi,        \* SpecNorm: what the API call did, the input of get_recent_tracks
    normResult,     \* SpecNorm: what get_recent_tracks returned for it
    glue            \* the Deduplicator job and its catalog / output path

vars == <<environ, packagedCache, tmpCache, s3Objects, clock, runs, seedCopies,
          clobbered, overlapped, frame, normApi, normResult, glue>>

collectorVars == <<environ, packagedCache, tmpCache, s3Objects, clock, runs, seedCopies,
                   clobbered, overlapped, frame>>

normVars == <<normApi, normResult>>

(***************************************************************************)
(* Bounds of the model.                                                    *)
(***************************************************************************)
\* invocations of the Collector per behaviour
MaxRuns == 2
\* items in one API response inside the Collector specifications
MaxItems == 2
\* items in one API response in SpecNorm
MaxNormItems == 3
\* the last tick of the wall clock
MaxClock == 2
\* ticks in one second: strftime("%Y%m%d_%H%M%S") names the second of a tick
TicksPerSecond == 2
\* seconds in one day; the clock starts in the last second of a day
SecondsPerDay == 2
\* rows of the catalog table
MaxRows == 3
\* runs of the Deduplicator job per behaviour
MaxJobRuns == 2

Absent == "absent"
None == <<>>

(***************************************************************************)
(* Python string helpers.  A string is a sequence of one-character         *)
(* strings; s[a:b] is Slice(s, a, b) with Python's clamping.               *)
(***************************************************************************)
Min(a, b) == IF a <= b THEN a ELSE b

Slice(s, a, b) == SubSeq(s, a + 1, Min(b, Len(s)))

IsPrefix(p, s) == Len(p) <= Len(s) /\ SubSeq(s, 1, Len(p)) = p


(***************************************************************************)
(* The streaming API's "recently played" items.  An item is a nested       *)
(* record; a key the response lacks is a key outside the record's DOMAIN.  *)
(***************************************************************************)
\* "2024-03-07T09:15:30Z"
PlayedAt1 == <<"2","0","2","4","-","0","3","-","0","7","T","0","9",":","1","5",":","3","0","Z">>
\* "2024-03-07T20:41:02Z": its hour field repeats its first two characters
PlayedAt2 == <<"2","0","2","4","-","0","3","-","0","7","T","2","0",":","4","1",":","0","2","Z">>

AlbumA == [name |-> "Album A", id |-> "alb1", release_date |-> "2020-01-01",
           total_tracks |-> 12]

ArtistA == [name |-> "Artist A", id |-> "art1"]

TrackA == [id |-> "trk1", name |-> "Song A", artists |-> <<ArtistA>>,
           album |-> AlbumA, duration_ms |-> 201000, popularity |-> 55,
           explicit |-> FALSE]

TrackNoArtists == [id |-> "trk1", name |-> "Song A", artists |-> <<>>,
                   album |-> AlbumA, duration_ms |-> 201000, popularity |-> 55,
                   explicit |-> FALSE]

TrackNoAlbum == [id |-> "trk1", name |-> "Song A", artists |-> <<ArtistA>>,
                 duration_ms |-> 201000, popularity |-> 55, explicit |-> FALSE]

\* the first artist has no 'name'
TrackArtistNoName == [id |-> "trk1", name |-> "Song A", artists |-> <<[id |-> "art1"]>>,
                      album |-> AlbumA, duration_ms |-> 201000, popularity |-> 55,
                      explicit |-> FALSE]

\* the album has no 'total_tracks', the last lookup of the record
TrackAlbumNoTotal == [id |-> "trk1", name |-> "Song A", artists |-> <<ArtistA>>,
                      album |-> [name |-> "Album A", id |-> "alb1",
                                 release_date |-> "2020-01-01"],
                      duration_ms |-> 201000, popularity |-> 55, explicit |-> FALSE]

TrackNoDuration == [id |-> "trk1", name |-> "Song A", artists |-> <<ArtistA>>,
                    album |-> AlbumA, popularity |-> 55, explicit |-> FALSE]

GoodItems == {[track |-> TrackA, played_at |-> PlayedAt1],
              [track |-> TrackA, played_at |-> PlayedAt2]}

MalformedItems == {[played_at |-> PlayedAt1],
                   [track |-> TrackNoArtists, played_at |-> PlayedAt1],
                   [track |-> TrackNoAlbum, played_at |-> PlayedAt1],
                   [track |-> TrackArtistNoName, played_at |-> PlayedAt1],
                   [track |-> TrackAlbumNoTotal, played_at |-> PlayedAt1],
                   [track |-> TrackNoDuration, played_at |-> PlayedAt1],
                   [track |-> TrackA]}

Items == GoodItems \cup MalformedItems

SeqsUpTo(S, n) == UNION {[1..k -> S] : k \in 0..n}

\* The item lists the Collector specification draws from: well-formed items
\* of one kind, closed or not by a malformed item of any kind.  The loop
\* stops at the first item it cannot read, so no item follows a malformed one.
CollectorItems(n) ==
    LET good == SeqsUpTo({[track |-> TrackA, played_at |-> PlayedAt1]}, n) IN
    good \cup {Append(s, m) : s \in {g \in good : Len(g) < n}, m \in MalformedItems}

\* Spotify allows at most 50 items per request (limit=target_count).
target_count == 50

\* What sp_client.current_user_recently_played(limit=50) can do: raise, or
\* return a result object with or without an 'items' key.
ApiOutcomes(itemLists) ==
    {[raises |-> TRUE, results |-> [limit |-> target_count]]}
    \cup {[raises |-> FALSE, results |-> [limit |-> target_count]]}
    \cup {[raises |-> FALSE, results |-> [items |-> s, limit |-> target_count]] :
            s \in {l \in itemLists : Len(l) <= target_count}}

(***************************************************************************)
(* get_recent_tracks.  The dict literal of the loop body evaluates its     *)
(* values in source order, so the first lookup that fails names the error. *)
(***************************************************************************)
ItemError(item) ==
    IF "track" \notin DOMAIN item THEN "KeyError: 'track'"
    ELSE IF "id" \notin DOMAIN item.track THEN "KeyError: 'id'"
    ELSE IF "name" \notin DOMAIN item.track THEN "KeyError: 'name'"
    ELSE IF "artists" \notin DOMAIN item.track THEN "KeyError: 'artists'"
    ELSE IF Len(item.track.artists) = 0 THEN "IndexError: list index out of range"
    ELSE IF "name" \notin DOMAIN item.track.artists[1] THEN "KeyError: 'name'"
    ELSE IF "played_at" \notin DOMAIN item THEN "KeyError: 'played_at'"
    ELSE IF "album" \notin DOMAIN item.track THEN "KeyError: 'album'"
    ELSE IF "name" \notin DOMAIN item.track.album THEN "KeyError: 'name'"
    ELSE IF "duration_ms" \notin DOMAIN item.track THEN "KeyError: 'duration_ms'"
    ELSE IF "popularity" \notin DOMAIN item.track THEN "KeyError: 'popularity'"
    ELSE IF "explicit" \notin DOMAIN item.track THEN "KeyError: 'explicit'"
    ELSE IF "id" \notin DOMAIN item.track.artists[1] THEN "KeyError: 'id'"
    ELSE IF "id" \notin DOMAIN item.track.album THEN "KeyError: 'id'"
    ELSE IF "release_date" \notin DOMAIN item.track.album THEN "KeyError: 'release_date'"
    ELSE IF "total_tracks" \notin DOMAIN item.track.album THEN "KeyError: 'total_tracks'"
    ELSE ""

\* Mutant: played_hour sliced from the start of played_at.
TrackData_HourPrefix(item, now) ==
    [track_id |-> item.track.id,
     name |-> item.track.name,
     artist |-> item.track.artists[1].name,
     played_at |-> item.played_at,
     album |-> item.track.album.name,
     duration_ms |-> item.track.duration_ms,
     popularity |-> item.track.popularity,
     explicit |-> item.track.explicit,
     artist_id |-> item.track.artists[1].id,
     album_id |-> item.track.album.id,
     release_date |-> item.track.album.release_date,
     total_tracks |-> item.track.album.total_tracks,
     played_date |-> Slice(item.played_at, 0, 10),
     played_hour |-> Slice(item.played_at, 0, 2),
     collection_timestamp |-> now]

TrackData(item, now) ==
    [track_id |-> item.track.id,
     name |-> item.track.name,
     artist |-> item.track.artists[1].name,
     played_at |-> item.played_at,
     album |-> item.track.album.name,
     duration_ms |-> item.track.duration_ms,
     popularity |-> item.track.popularity,
     explicit |-> item.track.explicit,
     artist_id |-> item.track.artists[1].id,
     album_id |-> item.track.album.id,
     release_date |-> item.track.album.release_date,
     total_tracks |-> item.track.album.total_tracks,
     played_date |-> Slice(item.played_at, 0, 10),
     played_hour |-> Slice(item.played_at, 11, 13),
     collection_timestamp |-> now]

\* Mutant: the except clause returns the records gathered so far.
OnException_KeepsPartial(all_tracks, e) ==
    [tracks |-> all_tracks,
     log |-> [msg |-> "Error en la peticion a la API de Spotify", err |-> e]]

\* The except clause: log the error, return [].
OnException(all_tracks, e) ==
    [tracks |-> <<>>, log |-> [msg |-> "Error en la peticion a la API de Spotify", err |-> e]]

\* The loop reads datetime.now() once for every item it normalizes, and the
\* clock may have moved since the reading before: with the clock at t and
\* stopping at last, the set of results the loop can produce.  A result
\* carries the clock as the loop left it.
RECURSIVE TrackLoop(_, _, _, _)
TrackLoop(items, all_tracks, t, last) ==
    IF items = <<>>
    THEN {[tracks |-> all_tracks, clock |-> t,
           log |-> [msg |-> "Se extrajeron datos", err |-> ""]]}
    ELSE IF ItemError(Head(items)) # ""
         THEN {[tracks |-> r.tracks, clock |-> t, log |-> r.log] :
                  r \in {OnException(all_tracks, ItemError(Head(items)))}}
         ELSE UNION {TrackLoop(Tail(items),
                               Append(all_tracks, TrackData(Head(items), now)),
                               now, last) : now \in t..last}

ResultItems(results) ==
    IF "items" \in DOMAIN results THEN results.items ELSE <<>>

\* The results get_recent_tracks can produce for one outcome of the API call.
get_recent_tracks(api, t, last) ==
    IF api.raises
    THEN {[tracks |-> r.tracks, clock |-> t, log |-> r.log] :
             r \in {OnException(<<>>, "SpotifyException")}}
    ELSE IF ResultItems(api.results) = <<>>
         THEN {[tracks |-> <<>>, clock |-> t,
                log |-> [msg |-> "No se encontraron canciones", err |-> ""]]}
         ELSE TrackLoop(ResultItems(api.results), <<>>, t, last)


(***************************************************************************)
(* lambda_handler.  frame[i] holds the locals of one invocation; the       *)
(* counters and tmpAtStart are bookkeeping of what the run has done.       *)
(***************************************************************************)
Invocations == {"a", "b"}

EnvNames == {"PARAMETER_PATH", "S3_BUCKET"}

RequiredSecrets == {"client-id", "client-secret", "redirect-uri"}

\* Parameter names under the configured path, split on '/'.
ParameterNames == {<<"", "spotify", k>> : k \in RequiredSecrets}

\* ssm.get_parameters_by_path: raises, or returns some of the parameters.
SsmOutcomes == {[failed |-> TRUE, names |-> {}]}
               \cup {[failed |-> FALSE, names |-> n] : n \in SUBSET ParameterNames}

\* How an invocation ended: a returned response, or the exception that left
\* lambda_handler (exc, with its argument in body).  body is the text that
\* json.dumps wraps in quotes.
NoResult == [kind |-> "none", statusCode |-> 0, exc |-> "", body |-> ""]

Raised(exc, arg) == [kind |-> "raise", statusCode |-> 0, exc |-> exc, body |-> arg]

SavedResponse == [kind |-> "return", statusCode |-> 200, exc |-> "",
                  body |-> "Datos guardados correctamente en S3."]

NoNewResponse == [kind |-> "return", statusCode |-> 200, exc |-> "",
                  body |-> "No se procesaron nuevas canciones."]

NoLog == [msg |-> "", err |-> ""]

IdleFrame == [pc |-> "idle", run |-> 0, tmpAtStart |-> FALSE, copied |-> 0,
              ssmResult |-> [failed |-> FALSE, names |-> {}],
              ssmCalls |-> 0, apiCalls |-> 0, s3Puts |-> 0,
              tracks |-> <<>>, log |-> NoLog,
              glue_url |-> None, regular_url |-> None, result |-> NoResult]

Running(i) == frame[i].pc \notin {"idle", "returned", "raised"}

\* Mutant: the copy is made whenever the package holds a seed.
NeedsSeedCopy_NoTmpCheck(tmp, packaged) == packaged # Absent

\* if not os.path.exists(tmp_cache_path) and os.path.exists(packaged_cache_path)
NeedsSeedCopy(tmp, packaged) == tmp = Absent /\ packaged # Absent

\* Mutant: only PARAMETER_PATH is looked up.
MissingEnv_OnlyPath(env) ==
    IF "PARAMETER_PATH" \notin env THEN "PARAMETER_PATH" ELSE ""

\* The first os.environ[...] lookup that raises KeyError, "" when none does.
MissingEnv(env) ==
    IF "PARAMETER_PATH" \notin env THEN "PARAMETER_PATH"
    ELSE IF "S3_BUCKET" \notin env THEN "S3_BUCKET"
    ELSE ""

\* {param['Name'].split('/')[-1]: param['Value'] for param in ...}: the keys
SecretKeys(names) == {n[Len(n)] : n \in names}

\* Mutant: any() in place of all().
SecretsComplete_Any(secrets) == \E k \in RequiredSecrets : k \in secrets

\* all(k in secrets for k in ["client-id", "client-secret", "redirect-uri"])
SecretsComplete(secrets) == \A k \in RequiredSecrets : k \in secrets

\* Mutant: the batch is saved whether or not it is empty.
ShouldSave_Always(tracks) == TRUE

\* if tracks:
ShouldSave(tracks) == tracks # <<>>

\* Mutant: or in place of and.
BothSaved_Either(glue_url, regular_url) == glue_url # None \/ regular_url # None

\* if glue_url and regular_url:
BothSaved(glue_url, regular_url) == glue_url # None /\ regular_url # None

\* s3.put_object replaces the object stored under the key.
PutObject(objects, key, body) ==
    {o \in objects : o.key # key} \cup {[key |-> key, body |-> body]}

\* _upload_string_to_s3: TRUE and the object stored, or FALSE and the bucket as it was
UploadStringToS3(objects, key, body, putOk) ==
    IF putOk THEN [ok |-> TRUE, objects |-> PutObject(objects, key, body)]
    ELSE [ok |-> FALSE, objects |-> objects]

\* datetime.now().strftime("%Y%m%d_%H%M%S"): the second a tick falls in.
Timestamp(t) == t \div TicksPerSecond

\* datetime.now().strftime("year=%Y/month=%m/day=%d"): the day a tick falls
\* in.  Second 0 is the last second of day 0.
DatePartition(t) == (Timestamp(t) + SecondsPerDay - 1) \div SecondsPerDay

\* save_json_for_glue reads the clock twice: t for the timestamp of the file
\* name, then d for the date partition.
GlueKey(t, d) == <<"raw/historial", DatePartition(d), Timestamp(t), "jsonl">>

\* save_regular_json reads the clock once, for the timestamp of the file name.

RegularKey(t) == <<"processed/historial", Timestamp(t), "json">>

JsonlContent(tracks) == [format |-> "jsonl", records |-> tracks]

JsonContent(tracks) == [format |-> "json-indent-2", records |-> tracks]

Invoke(i) ==
    /\ ~Running(i)
    /\ runs < MaxRuns
    /\ runs' = runs + 1
    /\ overlapped' = (overlapped \/ \E j \in Invocations \ {i} : Running(j))
    /\ frame' = [frame EXCEPT ![i] =
            [IdleFrame EXCEPT
                !.run = runs + 1,
                !.tmpAtStart = (tmpCache # Absent),
                !.pc = IF NeedsSeedCopy(tmpCache, packagedCache)
                       THEN "copy_cache" ELSE "get_config"]]
    /\ UNCHANGED <<clock, environ, packagedCache, tmpCache, s3Objects, seedCopies, clobbered>>
    /\ UNCHANGED <<normVars, glue>>

\* The scheduled trigger: no other invocation is in flight.
InvokeAlone(i) ==
    /\ \A j \in Invocations : ~Running(j)
    /\ Invoke(i)

\* shutil.copy(packaged_cache_path, tmp_cache_path)
CopyCache(i) ==
    /\ frame[i].pc = "copy_cache"
    /\ tmpCache' = packagedCache
    /\ seedCopies' = seedCopies + 1
    /\ clobbered' = (clobbered \/ tmpCache = "refreshed")
    /\ frame' = [frame EXCEPT ![i].copied = @ + 1, ![i].pc = "get_config"]
    /\ UNCHANGED <<clock, environ, packagedCache, s3Objects, runs, overlapped>>
    /\ UNCHANGED <<normVars, glue>>

GetConfig(i) ==
    /\ frame[i].pc = "get_config"
    /\ frame' = [frame EXCEPT ![i] =
            IF MissingEnv(environ) = ""
            THEN [@ EXCEPT !.pc = "get_secrets"]
            ELSE [@ EXCEPT !.pc = "raised",
                           !.result = Raised("KeyError", MissingEnv(environ))]]
    /\ UNCHANGED <<clock, environ, packagedCache, tmpCache, s3Objects, runs, seedCopies,
                   clobbered, overlapped>>
    /\ UNCHANGED <<normVars, glue>>

GetSecrets(i) ==
    /\ frame[i].pc = "get_secrets"
    /\ \E r \in SsmOutcomes :
         frame' = [frame EXCEPT ![i] =
            [@ EXCEPT !.ssmCalls = @ + 1,
                      !.ssmResult = r,
                      !.pc = IF r.failed \/ ~SecretsComplete(SecretKeys(r.names))
                             THEN "raised" ELSE "fetch",
                      !.result = IF r.failed THEN Raised("ClientError", "get_parameters_by_path")
                                 ELSE IF ~SecretsComplete(SecretKeys(r.names))
                                      THEN Raised("ValueError", "Faltan secretos")
                                      ELSE @]]
    /\ UNCHANGED <<clock, environ, packagedCache, tmpCache, s3Objects, runs, seedCopies,
                   clobbered, overlapped>>
    /\ UNCHANGED <<normVars, glue>>

\* What the API call can do given the credential cache: without a cached token
\* SpotifyOAuth (open_browser=False) cannot authorise, and the call raises.
FetchOutcomes(cache, apis) ==
    IF cache = Absent
    THEN {[raises |-> TRUE, results |-> [limit |-> target_count]]}
    ELSE apis

\* spotipy.Spotify(auth_manager=SpotifyOAuth(cache_path=tmp_cache_path)) and
\* get_recent_tracks(sp); the auth manager may refresh the token and rewrite
\* the cache file.  apis: the answers the API may give.
FetchTracks(i, apis) ==
    /\ frame[i].pc = "fetch"
    /\ \E api \in FetchOutcomes(tmpCache, apis), refresh \in BOOLEAN :
       \E r \in get_recent_tracks(api, clock, MaxClock) :
         /\ clock' = r.clock
         /\ tmpCache' = IF refresh /\ tmpCache # Absent THEN "refreshed" ELSE tmpCache
         /\ frame' = [frame EXCEPT ![i] =
                [@ EXCEPT !.apiCalls = @ + 1,
                          !.tracks = r.tracks,
                          !.log = r.log,
                          !.pc = IF ShouldSave(r.tracks) THEN "save_glue" ELSE "finish"]]
    /\ UNCHANGED <<environ, packagedCache, s3Objects, runs, seedCopies, clobbered,
                   overlapped>>
    /\ UNCHANGED <<normVars, glue>>

\* glue_url = save_json_for_glue(tracks, s3_bucket)
\* The clock may move between the two readings of datetime.now().
SaveJsonForGlue(i) ==
    /\ frame[i].pc = "save_glue"
    /\ \E putOk \in BOOLEAN, now \in clock..MaxClock :
         LET up == UploadStringToS3(s3Objects, GlueKey(clock, now),
                                    JsonlContent(frame[i].tracks), putOk) IN
         /\ clock' = now
         /\ s3Objects' = up.objects
         /\ frame' = [frame EXCEPT ![i] =
                [@ EXCEPT !.s3Puts = @ + 1,
                          !.glue_url = IF up.ok THEN GlueKey(clock, now) ELSE None,
                          !.pc = "save_regular"]]
    /\ UNCHANGED <<environ, packagedCache, tmpCache, runs, seedCopies, clobbered,
                   overlapped>>
    /\ UNCHANGED <<normVars, glue>>

\* regular_url = save_regular_json(tracks, s3_bucket)
SaveRegularJson(i) ==
    /\ frame[i].pc = "save_regular"
    /\ \E putOk \in BOOLEAN :
         LET up == UploadStringToS3(s3Objects, RegularKey(clock),
                                    JsonContent(frame[i].tracks), putOk) IN
         /\ s3Objects' = up.objects
         /\ frame' = [frame EXCEPT ![i] =
                [@ EXCEPT !.s3Puts = @ + 1,
                          !.regular_url = IF up.ok THEN RegularKey(clock) ELSE None,
                          !.pc = "finish"]]
    /\ UNCHANGED <<clock, environ, packagedCache, tmpCache, runs, seedCopies, clobbered,
                   overlapped>>
    /\ UNCHANGED <<normVars, glue>>

\* The two return statements of lambda_handler.
Finish(i) ==
    /\ frame[i].pc = "finish"
    /\ frame' = [frame EXCEPT ![i] =
            [@ EXCEPT !.pc = "returned",
                      !.result = IF ShouldSave(frame[i].tracks)
                                    /\ BothSaved(frame[i].glue_url, frame[i].regular_url)
                                 THEN SavedResponse ELSE NoNewResponse]]
    /\ UNCHANGED <<clock, environ, packagedCache, tmpCache, s3Objects, runs, seedCopies,
                   clobbered, overlapped>>
    /\ UNCHANGED <<normVars, glue>>

\* Time passes.
Tick ==
    /\ clock < MaxClock
    /\ clock' = clock + 1
    /\ UNCHANGED <<environ, packagedCache, tmpCache, s3Objects, runs, seedCopies,
                   clobbered, overlapped, frame>>
    /\ UNCHANGED <<normVars, glue>>

Step(i, apis) ==
    \/ CopyCache(i)
    \/ GetConfig(i)
    \/ GetSecrets(i)
    \/ FetchTracks(i, apis)
    \/ SaveJsonForGlue(i)
    \/ SaveRegularJson(i)
    \/ Finish(i)


(***************************************************************************)
(* The Deduplicator job (glue-job.py).  A DataFrame is a bag of rows: a    *)
(* function from rows to their number of copies (Spark keeps no order).    *)
(***************************************************************************)
OUTPUT_PATH == "s3://spotify-historial-raw/historial-limpio/"

DEDUP_COLUMN == "played_at"

Rows == [played_at : {"t1", "t2"}, track_id : {"x", "y"}]

RECURSIVE SumCopies(_, _)
SumCopies(df, rs) ==
    IF rs = {} THEN 0
    ELSE LET r == CHOOSE x \in rs : TRUE IN df[r] + SumCopies(df, rs \ {r})

\* df.count()
Count(df) == SumCopies(df, Rows)

EmptyFrame == [r \in Rows |-> 0]

Frames(n) == {df \in [Rows -> 0..n] : Count(df) <= n}

\* The values a row has in the given columns.
KeyOf(r, cols) == [c \in cols |-> r[c]]

KeysOf(df, cols) == {KeyOf(r, cols) : r \in {x \in Rows : df[x] > 0}}

\* The column list handed to dropDuplicates.
DedupSubset == {DEDUP_COLUMN}

\* df.dropDuplicates(cols): one row is kept for every distinct value of the
\* columns; which of the rows that share it is kept is Spark's choice.
DropDuplicatesOutcomes(df, cols) ==
    {d \in [Rows -> 0..1] :
        /\ \A r \in Rows : d[r] = 1 => df[r] > 0
        /\ \A k \in KeysOf(df, cols) :
             Cardinality({r \in Rows : d[r] = 1 /\ KeyOf(r, cols) = k}) = 1}

\* from_catalog: the table's rows, or the catalog's error.
CatalogOutcomes(n) ==
    {[error |-> e, table |-> EmptyFrame] :
        e \in {"EntityNotFoundException: database", "EntityNotFoundException: table"}}
    \cup {[error |-> "", table |-> t] : t \in Frames(n)}

\* df1 and df2 together: the rows of both, copies added.
UnionAll(df1, df2) == [r \in Rows |-> df1[r] + df2[r]]

\* The frames made of some of the rows of df.
PartsOf(df) == {p \in [Rows -> 0..1] : \A r \in Rows : p[r] <= df[r]}

\* What the output path holds: the rows of all the parquet files under it.
NoOutput == [path |-> OUTPUT_PATH, rows |-> EmptyFrame]

\* The job as the script starts: job.init(...) done, nothing loaded yet.  The
\* output path keeps what an earlier run wrote.
JobStart(output, n) ==
    [pc |-> "start", jobRun |-> n,
     source_data |-> EmptyFrame, deduplicated_data |-> EmptyFrame,
     deduplicated |-> FALSE, wrote |-> FALSE, committed |-> FALSE,
     caught |-> "", raisedError |-> "", output |-> output,
     outputAtStart |-> output]

\* Mutant: a new exception is raised in place of the one caught.
Reraise_Wrapped(e) == "Exception: no se pudo cargar la tabla"

\* except Exception as e: ...; raise e
Reraise(e) == e

NotCalled == [called |-> FALSE, tracks |-> <<>>, log |-> NoLog]

Init ==
    /\ environ \in SUBSET EnvNames
    /\ packagedCache \in {Absent, "seed"}
    /\ tmpCache = Absent
    /\ s3Objects = {}
    /\ clock = 0
    /\ runs = 0
    /\ seedCopies = 0
    /\ clobbered = FALSE
    /\ overlapped = FALSE
    /\ frame = [i \in Invocations |-> IdleFrame]
    /\ normApi = [raises |-> FALSE, results |-> [limit |-> target_count]]
    /\ normResult = NotCalled
    /\ glue = JobStart(NoOutput, 1)

Next ==
    \/ Tick
    \/ InvokeAlone("a")
    \/ Step("a", ApiOutcomes(CollectorItems(MaxItems)))

Spec == Init /\ [][Next]_vars

\* The race is on the cache file, not on the response or the bucket: here the
\* API answers with an error or with no items, so nothing is saved.
NextOverlap ==
    \E i \in Invocations :
        \/ Invoke(i)
        \/ CopyCache(i)
        \/ GetConfig(i)
        \/ GetSecrets(i)
        \/ FetchTracks(i, ApiOutcomes({<<>>}))
        \/ Finish(i)

SpecOverlap == Init /\ [][NextOverlap]_vars


(***************************************************************************)
(* SpecNorm: get_recent_tracks on every bounded outcome of the API call.   *)
(***************************************************************************)
\* The Collector before any invocation, fully configured.
CollectorIdle ==
    /\ environ = EnvNames
    /\ packagedCache = "seed"
    /\ tmpCache = Absent
    /\ s3Objects = {}
    /\ clock = 0
    /\ runs = 0
    /\ seedCopies = 0
    /\ clobbered = FALSE
    /\ overlapped = FALSE
    /\ frame = [i \in Invocations |-> IdleFrame]

InitNorm ==
    /\ CollectorIdle
    /\ normApi \in ApiOutcomes(SeqsUpTo(Items, MaxNormItems))
    /\ normResult = NotCalled
    /\ glue = JobStart(NoOutput, 1)

\* datetime.now() is read once per item; the clock may move in between.
GetRecentTracks ==
    /\ ~normResult.called
    /\ \E r \in get_recent_tracks(normApi, 0, 1) :
         normResult' = [called |-> TRUE, tracks |-> r.tracks, log |-> r.log]
    /\ UNCHANGED <<normApi, glue>>
    /\ UNCHANGED collectorVars

NextNorm == GetRecentTracks

SpecNorm == InitNorm /\ [][NextNorm]_vars

(***************************************************************************)
(* SpecGlue: the Deduplicator job, run and run again.                      *)
(***************************************************************************)
\* glueContext.create_dynamic_frame.from_catalog in its try/except
LoadFromCatalog ==
    /\ glue.pc = "start"
    /\ \E r \in CatalogOutcomes(MaxRows) :
         glue' = IF r.error # ""
                 THEN [glue EXCEPT !.pc = "aborted",
                                   !.caught = r.error,
                                   !.raisedError = Reraise(r.error)]
                 ELSE [glue EXCEPT !.pc = "loaded", !.source_data = r.table]
    /\ UNCHANGED <<collectorVars, normVars>>

\* df = source_data.toDF(); deduplicated_df = df.dropDuplicates([DEDUP_COLUMN])
DropDuplicates ==
    /\ glue.pc = "loaded"
    /\ \E d \in DropDuplicatesOutcomes(glue.source_data, DedupSubset) :
         glue' = [glue EXCEPT !.pc = "deduplicated",
                              !.deduplicated = TRUE,
                              !.deduplicated_data = d]
    /\ UNCHANGED <<collectorVars, normVars>>

\* glueContext.write_dynamic_frame.from_options(connection_type="s3",
\* format="parquet"): the sink adds new files under the path and removes
\* none, so the path then holds what it held and the frame; or the write
\* raises, the job aborts, and the files written so far stay.
WriteParquet ==
    /\ glue.pc = "deduplicated"
    /\ \/ glue' = [glue EXCEPT !.pc = "written",
                                !.wrote = TRUE,
                                !.output = [path |-> OUTPUT_PATH,
                                            rows |-> UnionAll(glue.output.rows,
                                                              glue.deduplicated_data)]]
       \/ \E left \in PartsOf(glue.deduplicated_data) :
            glue' = [glue EXCEPT !.pc = "aborted",
                                 !.raisedError = "write_dynamic_frame failed",
                                 !.output = [path |-> OUTPUT_PATH,
                                             rows |-> UnionAll(glue.output.rows, left)]]
    /\ UNCHANGED <<collectorVars, normVars>>

\* job.commit()
Commit ==
    /\ glue.pc = "written"
    /\ glue' = [glue EXCEPT !.pc = "committed", !.committed = TRUE]
    /\ UNCHANGED <<collectorVars, normVars>>

\* The job is started again; the output path keeps its content.
RunJobAgain ==
    /\ glue.pc \in {"committed", "aborted"}
    /\ glue.jobRun < MaxJobRuns
    /\ glue' = JobStart(glue.output, glue.jobRun + 1)
    /\ UNCHANGED <<collectorVars, normVars>>

NextGlue ==
    \/ LoadFromCatalog
    \/ DropDuplicates
    \/ WriteParquet
    \/ Commit
    \/ RunJobAgain

InitGlue ==
    /\ CollectorIdle
    /\ normApi = [raises |-> FALSE, results |-> [limit |-> target_count]]
    /\ normResult = NotCalled
    /\ glue = JobStart(NoOutput, 1)

SpecGlue == InitGlue /\ [][NextGlue]_vars


(***************************************************************************)
(* Properties of the Collector.                                            *)
(***************************************************************************)
\* Invocation i has evaluated the cache check and made its copy, if any.
PastCacheHandoff(i) == frame[i].pc \notin {"idle", "copy_cache"}

\* Invocation i has ended, by return or by exception.
Ended(i) == frame[i].pc \in {"returned", "raised"}

\* No call left the process in invocation i: secret store, API, storage.
NoExternalCall(i) ==
    frame[i].ssmCalls = 0 /\ frame[i].apiCalls = 0 /\ frame[i].s3Puts = 0

\* C1: with invocations that do not overlap, an invocation that starts with
\* no /tmp/.cache and a packaged seed copies the seed exactly once and
\* /tmp/.cache then holds the seed's content; an invocation that starts with
\* /tmp/.cache present makes no copy, so in the whole environment the seed is
\* copied at most once and never onto a refreshed cache.
C1_CacheHandoff ==
    /\ seedCopies <= 1
    /\ ~clobbered
    /\ seedCopies = 1 => tmpCache \in {"seed", "refreshed"}
    /\ \A i \in Invocations :
         PastCacheHandoff(i) =>
            /\ (~frame[i].tmpAtStart /\ packagedCache # Absent) => frame[i].copied = 1
            /\ frame[i].tmpAtStart => frame[i].copied = 0
            /\ (frame[i].copied = 1 /\ frame[i].pc \in {"get_config", "get_secrets", "fetch"})
                  => tmpCache = packagedCache

\* A second invocation started with a refreshed /tmp/.cache, made no copy, and
\* the refreshed cache is still there.
C1_Witness ==
    \E i \in Invocations :
        /\ frame[i].run = 2
        /\ frame[i].tmpAtStart
        /\ frame[i].pc = "get_secrets"
        /\ frame[i].copied = 0
        /\ seedCopies = 1
        /\ tmpCache = "refreshed"

\* Invocation i returned after a non-empty batch of which exactly one of the
\* two uploads succeeded.
PartialWrite(i) ==
    /\ frame[i].pc = "returned"
    /\ frame[i].tracks # <<>>
    /\ frame[i].s3Puts = 2
    /\ (frame[i].glue_url # None) # (frame[i].regular_url # None)

Stored(key, body) == [key |-> key, body |-> body] \in s3Objects

\* C2 as stated: after a partial write the result of lambda_handler is a
\* failure: an exception, or a response whose statusCode is not 200.
C2_ReportedAsFailure ==
    \A i \in Invocations :
        PartialWrite(i) =>
            frame[i].result.kind = "raise" \/ frame[i].result.statusCode # 200

\* C2 amended: the "Datos guardados" response is returned only when both
\* uploads succeeded; after a partial write lambda_handler returns the
\* statusCode 200 "No se procesaron nuevas canciones." response (the one an
\* empty fetch gets), and the object of the upload that succeeded is in the
\* bucket.
C2_PartialWrite ==
    \A i \in Invocations :
        /\ (frame[i].pc = "returned" /\ frame[i].result = SavedResponse) =>
              /\ frame[i].glue_url # None /\ frame[i].regular_url # None
              /\ frame[i].s3Puts = 2
        /\ PartialWrite(i) =>
              /\ frame[i].result = NoNewResponse
              /\ frame[i].glue_url # None =>
                    Stored(frame[i].glue_url,
                           [format |-> "jsonl", records |-> frame[i].tracks])
              /\ frame[i].regular_url # None =>
                    Stored(frame[i].regular_url,
                           [format |-> "json-indent-2", records |-> frame[i].tracks])

\* The JSONL upload succeeded, the JSON upload failed, the handler returned.
C2_Witness ==
    \E i \in Invocations :
        /\ PartialWrite(i)
        /\ frame[i].glue_url # None
        /\ frame[i].regular_url = None
        /\ \E o \in s3Objects : o.key = frame[i].glue_url

\* C3: when the fetch yields no records (no items, or an error of the API
\* call caught inside get_recent_tracks), the invocation does not end by an
\* exception, makes no storage write, and returns statusCode 200 with the
\* "no new songs" body.
C3_EmptyFetch ==
    \A i \in Invocations :
        /\ (frame[i].apiCalls = 1
            /\ frame[i].log.msg = "No se encontraron canciones") => frame[i].tracks = <<>>
        /\ (frame[i].apiCalls = 1
            /\ frame[i].log.err = "SpotifyException") => frame[i].tracks = <<>>
        /\ (frame[i].apiCalls = 1 /\ frame[i].tracks = <<>>) =>
              /\ frame[i].pc \in {"finish", "returned"}
              /\ frame[i].s3Puts = 0
              /\ frame[i].glue_url = None /\ frame[i].regular_url = None
              /\ frame[i].pc = "returned" =>
                    /\ frame[i].result.statusCode = 200
                    /\ frame[i].result = NoNewResponse

\* The API call raised, and the invocation returned without a storage write.
C3_Witness ==
    \E i \in Invocations :
        /\ frame[i].pc = "returned"
        /\ frame[i].log.err = "SpotifyException"
        /\ frame[i].apiCalls = 1
        /\ frame[i].s3Puts = 0
        /\ frame[i].result.statusCode = 200

\* C4: when PARAMETER_PATH or S3_BUCKET is not set, an invocation that has
\* read its configuration has ended with a KeyError and has made no call to
\* the secret store, to the API or to storage; nothing is ever stored.
C4_MissingConfiguration ==
    environ # EnvNames =>
        /\ s3Objects = {}
        /\ \A i \in Invocations :
             frame[i].pc \notin {"idle", "copy_cache", "get_config"} =>
                /\ frame[i].pc = "raised"
                /\ frame[i].result.kind = "raise"
                /\ frame[i].result.exc = "KeyError"
                /\ frame[i].result.body \in EnvNames \ environ
                /\ NoExternalCall(i)

\* S3_BUCKET alone is missing: the invocation copied the seed, then aborted.
C4_Witness ==
    \E i \in Invocations :
        /\ environ = {"PARAMETER_PATH"}
        /\ frame[i].pc = "raised"
        /\ frame[i].result.body = "S3_BUCKET"
        /\ frame[i].copied = 1

\* The secret lookup of invocation i failed or left a required secret out.
SecretsUnavailable(i) ==
    /\ frame[i].ssmCalls = 1
    /\ \/ frame[i].ssmResult.failed
       \/ \E k \in RequiredSecrets :
            \A n \in frame[i].ssmResult.names : n[Len(n)] # k

\* C7 as stated: with a required secret missing, or the lookup failing, the
\* invocation aborts before any external call is made.
C7_NoExternalCallAtAll ==
    \A i \in Invocations :
        (SecretsUnavailable(i) /\ Ended(i)) =>
            frame[i].pc = "raised" /\ NoExternalCall(i)

\* C7 amended: with a required secret missing, or the lookup failing, the
\* invocation aborts with an error right after its one secret-store call and
\* before any other external call: no API call and no storage write.
C7_MissingSecrets ==
    \A i \in Invocations :
        SecretsUnavailable(i) =>
            /\ frame[i].pc = "raised"
            /\ frame[i].result.kind = "raise"
            /\ frame[i].result.exc =
                  (IF frame[i].ssmResult.failed THEN "ClientError" ELSE "ValueError")
            /\ frame[i].ssmCalls = 1
            /\ frame[i].apiCalls = 0
            /\ frame[i].s3Puts = 0

\* The lookup answered with two of the three secrets; the invocation aborted.
C7_Witness ==
    \E i \in Invocations :
        /\ frame[i].pc = "raised"
        /\ frame[i].result.exc = "ValueError"
        /\ ~frame[i].ssmResult.failed
        /\ Cardinality(frame[i].ssmResult.names) = 2

\* get_recent_tracks of invocation i met an item with a missing or malformed
\* nested field (the error it logged is a lookup error, not the API's).
MalformedItemSeen(i) ==
    /\ frame[i].apiCalls = 1
    /\ frame[i].log.err \notin {"", "SpotifyException"}

\* C9 as stated: a malformed item makes the run end by an unhandled error; it
\* does not become a returned response.
C9_Unhandled ==
    \A i \in Invocations :
        (MalformedItemSeen(i) /\ Ended(i)) =>
            frame[i].pc = "raised" /\ frame[i].result.kind = "raise"

\* C9 amended: a malformed item is caught by the except clause of
\* get_recent_tracks: the whole batch becomes the empty list (the records
\* already built are dropped), nothing is written, and the run returns the
\* statusCode 200 "No se procesaron nuevas canciones." response.
C9_MalformedItem ==
    \A i \in Invocations :
        MalformedItemSeen(i) =>
            /\ frame[i].tracks = <<>>
            /\ frame[i].s3Puts = 0
            /\ frame[i].pc \in {"finish", "returned"}
            /\ frame[i].pc = "returned" => frame[i].result = NoNewResponse

\* An item without artists: the run returned the "no new songs" response.
C9_Witness ==
    \E i \in Invocations :
        /\ frame[i].pc = "returned"
        /\ frame[i].log.err = "IndexError: list index out of range"
        /\ frame[i].result = NoNewResponse

\* C10: as long as no two invocations have been in flight together, the seed
\* is copied at most once and never onto a refreshed cache; once they overlap
\* (the witness) both copy the seed and one copy overwrites the cache the
\* other has refreshed.
C10_RaceOnlyWhenOverlapping ==
    ~overlapped => (seedCopies <= 1 /\ ~clobbered)

\* Two overlapping invocations both copied the seed, the second copy over a
\* cache the first had refreshed; /tmp/.cache holds the seed again.
C10_Witness ==
    /\ overlapped
    /\ seedCopies = 2
    /\ clobbered
    /\ tmpCache = "seed"

(***************************************************************************)
(* Properties of get_recent_tracks (SpecNorm).                             *)
(***************************************************************************)
PlayRecordFields ==
    {"track_id", "name", "artist", "played_at", "album", "duration_ms",
     "popularity", "explicit", "artist_id", "album_id", "release_date",
     "total_tracks", "played_date", "played_hour", "collection_timestamp"}

\* The items of the response get_recent_tracks was given.
GivenItems ==
    IF "items" \in DOMAIN normApi.results THEN normApi.results.items ELSE <<>>

\* The API call returned, and every item has every required nested field.
ValidResponse ==
    /\ ~normApi.raises
    /\ \A k \in 1..Len(GivenItems) : GivenItems[k] \in GoodItems

\* N records for N items, in the order of the items, each with every field.
OneRecordPerItem ==
    /\ Len(normResult.tracks) = Len(GivenItems)
    /\ \A k \in 1..Len(GivenItems) :
         /\ DOMAIN normResult.tracks[k] = PlayRecordFields
         /\ normResult.tracks[k].played_at = GivenItems[k].played_at
         /\ normResult.tracks[k].track_id = GivenItems[k].track.id

\* C5 as stated: N records for N valid items, each with all fields, and both
\* played_date and played_hour are prefixes of the record's played_at.
C5_BothPrefixes ==
    (normResult.called /\ ValidResponse) =>
        /\ OneRecordPerItem
        /\ \A k \in 1..Len(normResult.tracks) :
             /\ IsPrefix(normResult.tracks[k].played_date, normResult.tracks[k].played_at)
             /\ IsPrefix(normResult.tracks[k].played_hour, normResult.tracks[k].played_at)

\* C5 amended: N records for N valid items, in order, each with all fields;
\* played_date is the first ten characters of the record's played_at (a
\* prefix) and played_hour is its twelfth and thirteenth characters, the hour
\* field after the 'T' (a substring, not a prefix).
C5_Normalization ==
    (normResult.called /\ ValidResponse) =>
        /\ OneRecordPerItem
        /\ \A k \in 1..Len(normResult.tracks) :
             LET t == normResult.tracks[k] IN
             /\ Len(t.played_date) = 10
             /\ IsPrefix(t.played_date, t.played_at)
             /\ t.played_hour = <<t.played_at[12], t.played_at[13]>>

\* Two valid items, the 20 h play first: two records in that order.
C5_Witness ==
    /\ normResult.called
    /\ ValidResponse
    /\ Len(normResult.tracks) = 2
    /\ normResult.tracks[1].played_hour = <<"2", "0">>
    /\ normResult.tracks[2].played_hour = <<"0", "9">>

(***************************************************************************)
(* Properties of the Deduplicator (SpecGlue).                              *)
(***************************************************************************)
PlayedAtValues == {r.played_at : r \in Rows}

\* The number of rows of df whose played_at is t.
RowsPlayedAt(df, t) == SumCopies(df, {r \in Rows : r.played_at = t})

\* df holds exactly one row for each played_at value of src and none for any
\* other value, every row of it is a row of src, and it is src itself when
\* src has no duplicates.
DeduplicationOf(df, src) ==
    /\ \A t \in PlayedAtValues :
         RowsPlayedAt(df, t) = (IF RowsPlayedAt(src, t) > 0 THEN 1 ELSE 0)
    /\ \A r \in Rows : df[r] > 0 => src[r] > 0
    /\ (\A t \in PlayedAtValues : RowsPlayedAt(src, t) <= 1) => df = src

\* C6: after a run has written, the Deduplicator's output (the rows at the
\* output path) holds exactly one row for each distinct played_at value of
\* the input table, every output row is a row of the input, a table of K
\* duplicate-free rows comes out as those K rows, and deduplicating the
\* output again changes nothing.  The frame handed to the writer satisfies
\* all of this; the output path does not once the job has run before.
C6_Deduplication ==
    glue.wrote =>
        /\ DeduplicationOf(glue.deduplicated_data, glue.source_data)
        /\ DeduplicationOf(glue.output.rows, glue.source_data)
        /\ DropDuplicatesOutcomes(glue.output.rows, DedupSubset) = {glue.output.rows}

\* The job ran twice on the one-row table t1: the frame written by the second
\* run holds that one row, and the output path holds it twice.
C6_Witness ==
    /\ glue.pc = "written"
    /\ glue.jobRun = 2
    /\ Count(glue.source_data) = 1
    /\ glue.source_data[[played_at |-> "t1", track_id |-> "x"]] = 1
    /\ glue.deduplicated_data = glue.source_data
    /\ glue.output.rows[[played_at |-> "t1", track_id |-> "x"]] = 2

\* C8: when the catalog load fails, the job aborts with the very error the
\* load raised, and in that run nothing is deduplicated, written or
\* committed: the output path holds what it held when the run started.  A
\* run commits only after it has written the output.
C8_CatalogFailure ==
    /\ glue.caught # "" =>
          /\ glue.pc = "aborted"
          /\ glue.raisedError = glue.caught
          /\ ~glue.deduplicated
          /\ ~glue.wrote
          /\ ~glue.committed
          /\ glue.output = glue.outputAtStart
    /\ glue.committed => glue.wrote
    /\ glue.wrote =>
          /\ glue.deduplicated
          /\ glue.output.rows = UnionAll(glue.outputAtStart.rows, glue.deduplicated_data)

\* A second run finds the table gone: it aborts, and the output of the first
\* run is still at the output path.
C8_Witness ==
    /\ glue.pc = "aborted"
    /\ glue.caught = "EntityNotFoundException: table"
    /\ glue.jobRun = 2
    /\ Count(glue.output.rows) > 0

=============================================================================
